---- MODULE Spec2Model ----
(***************************************************************************)
(* A model of dexbot.py: the Telegram command handlers (start, buy, sell,  *)
(* handle_message), the trade call to the BonkBot endpoint, configuration  *)
(* loading at start-up, and the event path _log_event ->                   *)
(* _format_alert_message -> send_alert.                                    *)
(*                                                                         *)
(* Conventions.                                                            *)
(*  - An inbound text is a sequence of one-character strings, so that      *)
(*    str.split() and float() are computed and not looked up.              *)
(*  - TLA+ strings are ASCII: a non-ASCII character of a Python literal is *)
(*    written [U+XXXX] with its code point.                                *)
(*  - The calls that leave the process (requests.post, the reply to the    *)
(*    issuing chat, Bot.send_message, the database commit) are modelled by *)
(*    their outcomes: the call returns, or it raises.                      *)
(***************************************************************************)
EXTENDS Integers, Sequences, FiniteSets, TLC

VARIABLES boot, cfgKeys, handlers, units, inflight, store, channel

vars == <<boot, cfgKeys, handlers, units, inflight, store, channel>>

(***************************************************************************)
(* Bounds of the model.                                                    *)
(***************************************************************************)
\* units of work (inbound chat messages plus raised events) in one run
MaxUnits == 2
\* width of a timestamp bucket of the dedup key
BucketLen == 2

(***************************************************************************)
(* Configuration: DexBot._load_config                                      *)
(***************************************************************************)
required_keys == {"telegram", "apis", "blacklists", "thresholds"}

\* top-level keys of the configuration documents of the runs
ConfigKeys == {"telegram", "apis", "blacklists", "thresholds"}

\* _load_config with a fault: any one required key is enough
LoadConfigAnyKey(keys) == IF required_keys \cap keys = {} THEN "ValueError" ELSE "ok"

\* _load_config: "ok" when the document is returned, "ValueError" when raised
_load_config(keys) == IF ~(required_keys \subseteq keys) THEN "ValueError" ELSE "ok"

(***************************************************************************)
(* Text: str.split() and float()                                           *)
(***************************************************************************)
Whitespace == {" "}

Digits == {"0", "1", "2", "3", "4", "5", "6", "7", "8", "9"}

DigitVal(c) ==
    CASE c = "0" -> 0 [] c = "1" -> 1 [] c = "2" -> 2 [] c = "3" -> 3 [] c = "4" -> 4
      [] c = "5" -> 5 [] c = "6" -> 6 [] c = "7" -> 7 [] c = "8" -> 8 [] c = "9" -> 9

RECURSIVE SplitFrom(_, _, _)
\* the words of s from position i on; cur is the word being read
SplitFrom(s, i, cur) ==
    IF i > Len(s) THEN (IF cur = <<>> THEN <<>> ELSE <<cur>>)
    ELSE IF s[i] \in Whitespace
         THEN (IF cur = <<>> THEN <<>> ELSE <<cur>>) \o SplitFrom(s, i + 1, <<>>)
         ELSE SplitFrom(s, i + 1, Append(cur, s[i]))

\* str.split() with no argument: runs of whitespace separate, none at the ends
split(s) == SplitFrom(s, 1, <<>>)

RECURSIVE DigitsValue(_)
\* the number a sequence of digits writes
DigitsValue(ds) ==
    IF ds = <<>> THEN 0 ELSE 10 * DigitsValue(SubSeq(ds, 1, Len(ds) - 1)) + DigitVal(ds[Len(ds)])

AllDigits(ds) == \A i \in 1..Len(ds) : ds[i] \in Digits

DotAt(w) == IF \E i \in 1..Len(w) : w[i] = "." THEN CHOOSE i \in 1..Len(w) : w[i] = "." ELSE 0

\* an unsigned decimal literal: digits, one optional ".", at least one digit
IsDecimal(w) ==
    LET d == DotAt(w) IN
    IF d = 0 THEN w # <<>> /\ AllDigits(w)
    ELSE /\ AllDigits(SubSeq(w, 1, d - 1))
         /\ AllDigits(SubSeq(w, d + 1, Len(w)))
         /\ Len(w) > 1

\* float(word): [raised, kind, sign, mant, frac]; a finite value is
\* sign * mant / 10^frac. Exponents and underscores are outside the alphabet
\* of the inbound texts.
float(word) ==
    LET signed == word # <<>> /\ word[1] \in {"-", "+"}
        sgn    == IF word # <<>> /\ word[1] = "-" THEN -1 ELSE 1
        w      == IF signed THEN Tail(word) ELSE word
        d      == DotAt(w)
        allds  == IF d = 0 THEN w ELSE SubSeq(w, 1, d - 1) \o SubSeq(w, d + 1, Len(w))
    IN  IF w = <<"n", "a", "n">>
        THEN [raised |-> FALSE, kind |-> "nan", sign |-> sgn, mant |-> 0, frac |-> 0]
        ELSE IF w = <<"i", "n", "f">>
        THEN [raised |-> FALSE, kind |-> "inf", sign |-> sgn, mant |-> 0, frac |-> 0]
        ELSE IF IsDecimal(w)
        THEN [raised |-> FALSE, kind |-> "finite", sign |-> sgn,
              mant |-> DigitsValue(allds), frac |-> IF d = 0 THEN 0 ELSE Len(w) - d]
        ELSE [raised |-> TRUE, kind |-> "ValueError", sign |-> 1, mant |-> 0, frac |-> 0]

(***************************************************************************)
(* Inbound texts and raised events of the runs                             *)
(***************************************************************************)
SP == <<" ">>

W_buy == <<"/", "b", "u", "y">>

W_sell == <<"/", "s", "e", "l", "l">>

W_start == <<"/", "s", "t", "a", "r", "t">>

W_SOL == <<"S", "O", "L">>

W_FOO == <<"F", "O", "O">>

Texts ==
    { W_buy \o SP \o W_SOL \o SP \o <<"2", ".", "5">>,
      W_sell \o SP \o W_SOL \o SP \o <<"a", "b", "c">>,
      W_buy,
      W_sell \o SP \o W_FOO \o SP \o <<"-", "1">>,
      W_buy \o SP \o W_SOL \o SP \o <<"0">>,
      W_buy \o SP \o SP \o W_SOL \o SP \o <<"1">> \o SP \o <<"x">>,
      <<"h", "e", "l", "l", "o">>,
      W_start }

Num(n) == [num |-> n]

Txt(t) == [str |-> t]

\* what _log_event is called with: pair_record.id, event_type, data
Events ==
    { [pair_id |-> 1, event_type |-> "rug_pull_alert",
       data |-> [symbol |-> Txt("FOO"), drop |-> Num(83)]],
      [pair_id |-> 1, event_type |-> "rug_pull_alert",
       data |-> [symbol |-> Txt("FOO"), dropPct |-> Num(83)]],
      [pair_id |-> 1, event_type |-> "pump_alert",
       data |-> [symbol |-> Txt("FOO"), changePct |-> Num(12)]],
      [pair_id |-> 2, event_type |-> "buy",
       data |-> [token |-> Txt("SOL"), amount |-> Txt("2.5"), action |-> Txt("buy")]],
      [pair_id |-> 2, event_type |-> "trade_failed",
       data |-> [token |-> Txt("SOL"), amount |-> Txt("2.5"), reason |-> Txt("timeout")]] }

\* how the BonkBot endpoint answers one requests.post
Answers ==
    { [kind |-> "response", status |-> 200, isjson |-> TRUE,  body |-> "{status: filled}"],
      [kind |-> "response", status |-> 500, isjson |-> TRUE,  body |-> "{error: rejected}"],
      [kind |-> "response", status |-> 200, isjson |-> FALSE, body |-> "<html>"],
      [kind |-> "Timeout", status |-> 0, isjson |-> FALSE, body |-> ""] }

NoAnswer == [kind |-> "none", status |-> 0, isjson |-> FALSE, body |-> ""]

(***************************************************************************)
(* TelegramBot: handler registration and routing                           *)
(***************************************************************************)
\* the handlers in the order TelegramBot.__init__ adds them
RegisteredHandlers ==
    << [filter |-> "command", command |-> <<"s", "t", "a", "r", "t">>, callback |-> "start"],
       [filter |-> "command", command |-> <<"b", "u", "y">>, callback |-> "buy"],
       [filter |-> "command", command |-> <<"s", "e", "l", "l">>, callback |-> "sell"],
       [filter |-> "text", command |-> <<>>, callback |-> "handle_message"] >>

\* a CommandHandler takes a text whose first word is "/" and its command,
\* the MessageHandler on filters.TEXT takes every text
Matches(h, text) ==
    IF h.filter = "command"
    THEN split(text) # <<>> /\ split(text)[1] = <<"/">> \o h.command
    ELSE TRUE

\* Route with a fault: the last registered handler that takes the text has it
RouteLastMatch(hs, text) ==
    IF \E i \in 1..Len(hs) : Matches(hs[i], text)
    THEN hs[CHOOSE i \in 1..Len(hs) :
               Matches(hs[i], text) /\ \A j \in (i + 1)..Len(hs) : ~Matches(hs[j], text)].callback
    ELSE "none"

\* the callback of the first registered handler that takes the text
Route(hs, text) ==
    IF \E i \in 1..Len(hs) : Matches(hs[i], text)
    THEN hs[CHOOSE i \in 1..Len(hs) :
               Matches(hs[i], text) /\ \A j \in 1..(i - 1) : ~Matches(hs[j], text)].callback
    ELSE "none"

(***************************************************************************)
(* TelegramBot.buy / sell: the try block up to the trade call              *)
(***************************************************************************)
NoAmount == [raised |-> FALSE, kind |-> "none", sign |-> 1, mant |-> 0, frac |-> 0]

\* the parse with a fault: the words are taken by position, whatever their number
ParseByPosition(text) ==
    LET words == split(text) IN
    IF Len(words) < 3
    THEN [raised |-> TRUE, exc |-> "ValueError", token |-> <<>>, amount |-> NoAmount]
    ELSE [raised |-> float(words[3]).raised,
          exc |-> IF float(words[3]).raised THEN "ValueError" ELSE "",
          token |-> words[2], amount |-> float(words[3])]

\* "_, token, amount = update.message.text.split()" and "float(amount)":
\* unpacking raises ValueError unless there are exactly three words
Parse(text) ==
    LET words == split(text) IN
    IF Len(words) # 3
    THEN [raised |-> TRUE, exc |-> "ValueError", token |-> <<>>, amount |-> NoAmount]
    ELSE [raised |-> float(words[3]).raised,
          exc |-> IF float(words[3]).raised THEN "ValueError" ELSE "",
          token |-> words[2], amount |-> float(words[3])]

\* the parse of each inbound text of the runs
ParsedTexts == [text \in Texts |-> Parse(text)]

\* requests.post(...).json(): a response with a JSON body is returned whatever
\* its status; a body that is not JSON and a timeout raise
_execute_trade(answer) ==
    IF answer.kind = "response"
    THEN IF answer.isjson
         THEN [raised |-> FALSE, exc |-> "", value |-> answer.body]
         ELSE [raised |-> TRUE, exc |-> "JSONDecodeError", value |-> ""]
    ELSE [raised |-> TRUE, exc |-> answer.kind, value |-> ""]

(***************************************************************************)
(* DexBot._format_alert_message                                            *)
(***************************************************************************)
Lit(t) == [lit |-> t]

Field(f) == [field |-> f]

\* the template table, each template cut at its replacement fields
templates ==
    [rug_pull_alert |-> << Lit("[U+1F6A8] *Rug Pull Alert*\nToken: "), Field("symbol"),
                           Lit("\nLiquidity Drop: "), Field("drop"), Lit("%") >>,
     pump_alert     |-> << Lit("[U+1F4C8] *Pump Detected*\nToken: "), Field("symbol"),
                           Lit("\nPrice Change: "), Field("change"), Lit("%") >>,
     buy            |-> << Lit("[U+2705] *Buy Executed*\nToken: "), Field("token"),
                           Lit("\nAmount: "), Field("amount") >>,
     sell           |-> << Lit("[U+1F4C9] *Sell Executed*\nToken: "), Field("token"),
                           Lit("\nAmount: "), Field("amount") >>]

\* the replacement fields a template names
FieldsOf(tpl) == {tpl[i].field : i \in {j \in 1..Len(tpl) : "field" \in DOMAIN tpl[j]}}

\* str() of a value of the event data
Str(v) == IF "num" \in DOMAIN v THEN ToString(v.num) ELSE v.str

RECURSIVE Render(_, _)
\* str.format(**data) on a template whose fields are all in data
Render(tpl, data) ==
    IF tpl = <<>> THEN ""
    ELSE (IF "lit" \in DOMAIN Head(tpl) THEN Head(tpl).lit ELSE Str(data[Head(tpl).field]))
         \o Render(Tail(tpl), data)

\* _format_alert_message with a fault: an event type without a template gets
\* a default text
FormatWithDefault(event_type, data) ==
    IF event_type \notin DOMAIN templates
    THEN [raised |-> FALSE, exc |-> "", text |-> "Event: " \o event_type]
    ELSE IF ~(FieldsOf(templates[event_type]) \subseteq DOMAIN data)
    THEN [raised |-> TRUE, exc |-> "KeyError", text |-> ""]
    ELSE [raised |-> FALSE, exc |-> "", text |-> Render(templates[event_type], data)]

\* templates[event_type].format(**data): KeyError for a type without a
\* template and for a replacement field that data lacks
_format_alert_message(event_type, data) ==
    IF event_type \notin DOMAIN templates
    THEN [raised |-> TRUE, exc |-> "KeyError", text |-> ""]
    ELSE IF ~(FieldsOf(templates[event_type]) \subseteq DOMAIN data)
    THEN [raised |-> TRUE, exc |-> "KeyError", text |-> ""]
    ELSE [raised |-> FALSE, exc |-> "", text |-> Render(templates[event_type], data)]

(***************************************************************************)
(* State                                                                   *)
(*   boot      where start-up stands: "init", "config_error",              *)
(*             "configured", "constructed", "running"                      *)
(*   cfgKeys   the top-level keys of the configuration document            *)
(*   handlers  the handlers added to the application, in order             *)
(*   units     the units of work in order of arrival: inbound chat         *)
(*             messages and calls of _log_event                            *)
(*   inflight  the unit whose requests.post blocks the bot's event loop,   *)
(*             0 when none does                                            *)
(*   store     the committed rows of the events table                      *)
(*   channel   the messages the chat transport got for the alert channel   *)
(***************************************************************************)
NewUnit(kind, text, ev) ==
    [kind |-> kind, text |-> text, pair_id |-> ev.pair_id, event_type |-> ev.event_type,
     data |-> ev.data, pc |-> IF kind = "chat" THEN "received" ELSE "submitted",
     handler |-> "", exc |-> "", requests |-> <<>>, answer |-> NoAnswer, value |-> "",
     replies |-> <<>>, message |-> "", sends |-> 0, ended |-> "", escaped |-> ""]

NoEvent == [pair_id |-> 0, event_type |-> "", data |-> <<>>]

Init ==
    /\ boot = "init"
    /\ cfgKeys \in SUBSET ConfigKeys
    /\ handlers = <<>>
    /\ units = <<>>
    /\ inflight = 0
    /\ store = <<>>
    /\ channel = <<>>

\* the calls of _log_event made before that of unit u have started to run
EarlierStarted(u) ==
    \A v \in 1..(u - 1) : units[v].kind = "event" => units[v].pc # "submitted"

\* the application handles one update at a time (run_polling with the
\* builder's defaults): the chat units that arrived before u are finished
EarlierHandled(u) ==
    \A v \in 1..(u - 1) : units[v].kind = "chat" => units[v].pc = "done"

\* unit u ends: normally, or with exception e leaving its handler
Finish(u, e) ==
    [units EXCEPT ![u].pc = "done",
                  ![u].ended = IF e = "" THEN "normal" ELSE "raised",
                  ![u].escaped = e]

(***************************************************************************)
(* Start-up: DexBot.__init__, TelegramBot.__init__, run                    *)
(***************************************************************************)
LoadConfig ==
    /\ boot = "init"
    /\ boot' = IF _load_config(cfgKeys) = "ok" THEN "configured" ELSE "config_error"
    /\ UNCHANGED <<cfgKeys, handlers, units, inflight, store, channel>>

TelegramBot_init ==
    /\ boot = "configured"
    /\ handlers' = RegisteredHandlers
    /\ boot' = "constructed"
    /\ UNCHANGED <<cfgKeys, units, inflight, store, channel>>

run ==
    /\ boot = "constructed"
    /\ boot' = "running"
    /\ UNCHANGED <<cfgKeys, handlers, units, inflight, store, channel>>

(***************************************************************************)
(* Chat handlers                                                           *)
(***************************************************************************)
\* an update with a text arrives from polling
Receive(text) ==
    /\ boot = "running"
    /\ Len(units) < MaxUnits
    /\ units' = Append(units, NewUnit("chat", text, NoEvent))
    /\ UNCHANGED <<boot, cfgKeys, handlers, inflight, store, channel>>

\* Taken with a fault: an application built with concurrent_updates(True) and
\* a trade call that does not block the event loop, so a handler starts
\* whatever the other handlers are at
TakenConcurrently(u, callback) ==
    /\ units[u].kind = "chat"
    /\ units[u].pc = "received"
    /\ Route(handlers, units[u].text) = callback

\* the handler the application calls for unit u
Taken(u, callback) ==
    /\ units[u].kind = "chat"
    /\ units[u].pc = "received"
    /\ inflight = 0
    /\ EarlierHandled(u)
    /\ Route(handlers, units[u].text) = callback

start(u) ==
    /\ Taken(u, "start")
    /\ units' = [units EXCEPT ![u].pc = "reply_plain", ![u].handler = "start"]
    /\ UNCHANGED <<boot, cfgKeys, handlers, inflight, store, channel>>

handle_message(u) ==
    /\ Taken(u, "handle_message")
    /\ units' = [units EXCEPT ![u].pc = "reply_plain", ![u].handler = "handle_message"]
    /\ UNCHANGED <<boot, cfgKeys, handlers, inflight, store, channel>>

\* TradeCommand with a fault: the handler logs the trade as an event before it
\* calls requests.post
TradeCommandLogs(u, action) ==
    /\ Taken(u, action)
    /\ LET p == ParsedTexts[units[u].text] IN
       IF p.raised
       THEN /\ units' = [units EXCEPT ![u].pc = "reply_except", ![u].handler = action,
                                      ![u].exc = p.exc]
            /\ UNCHANGED <<inflight, store>>
       ELSE /\ units' = [units EXCEPT ![u].pc = "request", ![u].handler = action,
                                      ![u].requests = Append(@, [action |-> action,
                                                                 token |-> p.token,
                                                                 amount |-> p.amount])]
            /\ inflight' = u
            /\ store' = Append(store, [unit |-> u, pair_id |-> 0, event_type |-> action,
                                       data |-> <<>>, timestamp |-> Len(store)])
    /\ UNCHANGED <<boot, cfgKeys, handlers, channel>>

\* buy and sell up to the call of requests.post: a text that does not parse
\* goes to the except clause, the others put their request on the wire
TradeCommand(u, action) ==
    /\ Taken(u, action)
    /\ LET p == ParsedTexts[units[u].text] IN
       IF p.raised
       THEN /\ units' = [units EXCEPT ![u].pc = "reply_except", ![u].handler = action,
                                      ![u].exc = p.exc]
            /\ UNCHANGED inflight
       ELSE /\ units' = [units EXCEPT ![u].pc = "request", ![u].handler = action,
                                      ![u].requests = Append(@, [action |-> action,
                                                                 token |-> p.token,
                                                                 amount |-> p.amount])]
            /\ inflight' = u
    /\ UNCHANGED <<boot, cfgKeys, handlers, store, channel>>

buy(u) == TradeCommand(u, "buy")

sell(u) == TradeCommand(u, "sell")

\* execute_trade_returns with a fault: a request that raised is sent once more
ExecuteTradeRetries(u) ==
    /\ units[u].pc = "request"
    /\ inflight = u
    /\ \E answer \in Answers :
          LET r == _execute_trade(answer)
              again == r.raised /\ Len(units[u].requests) < 2
          IN  /\ units' = [units EXCEPT
                              ![u].answer = answer,
                              ![u].value = r.value,
                              ![u].exc = r.exc,
                              ![u].requests = IF again THEN Append(@, @[1]) ELSE @,
                              ![u].pc = IF again THEN "request"
                                        ELSE IF r.raised THEN "reply_except" ELSE "reply_try"]
              /\ inflight' = IF again THEN u ELSE 0
    /\ UNCHANGED <<boot, cfgKeys, handlers, store, channel>>

\* requests.post(...).json() comes back in _execute_trade
execute_trade_returns(u) ==
    /\ units[u].pc = "request"
    /\ inflight = u
    /\ \E answer \in Answers :
          LET r == _execute_trade(answer) IN
          units' = [units EXCEPT ![u].answer = answer,
                                 ![u].value = r.value,
                                 ![u].exc = r.exc,
                                 ![u].pc = IF r.raised THEN "reply_except" ELSE "reply_try"]
    /\ inflight' = 0
    /\ UNCHANGED <<boot, cfgKeys, handlers, store, channel>>

\* the text each reply of a handler starts with
ReplyKind(unit) ==
    CASE unit.pc = "reply_try" -> "executed"
      [] unit.pc = "reply_except" -> "failed"
      [] unit.handler = "start" -> "start"
      [] OTHER -> "unrecognized"

\* re_text with a fault: the reply of the try block, once delivered, runs on
\* into the reply of the except clause (a "finally" for the "except")
ReTextFallsThrough(u) ==
    /\ units[u].kind = "chat"
    /\ units[u].pc \in {"reply_try", "reply_except", "reply_plain"}
    /\ inflight = 0
    /\ \E delivered \in BOOLEAN :
          LET sent == [units EXCEPT
                          ![u].replies = Append(@, [kind |-> ReplyKind(units[u]),
                                                    body |-> IF units[u].pc = "reply_try"
                                                             THEN units[u].value
                                                             ELSE units[u].exc])]
          IN  IF units[u].pc = "reply_try"
              THEN units' = [(IF delivered THEN sent ELSE units) EXCEPT
                                ![u].pc = "reply_except",
                                ![u].exc = IF delivered THEN "" ELSE "ReplyError"]
              ELSE IF delivered
                   THEN units' = [sent EXCEPT ![u].pc = "done", ![u].ended = "normal"]
                   ELSE units' = Finish(u, "ReplyError")
    /\ UNCHANGED <<boot, cfgKeys, handlers, inflight, store, channel>>

\* "await update.message.re_text(...)" ends: the reply is delivered to the
\* issuing chat and the call returns, or the call raises. A raise in the try
\* block is caught by "except Exception", any other raise leaves the handler.
re_text(u) ==
    /\ units[u].kind = "chat"
    /\ units[u].pc \in {"reply_try", "reply_except", "reply_plain"}
    /\ inflight = 0
    /\ \E delivered \in BOOLEAN :
          IF delivered
          THEN units' = [Finish(u, "") EXCEPT
                            ![u].replies = Append(@, [kind |-> ReplyKind(units[u]),
                                                      body |-> IF units[u].pc = "reply_try"
                                                               THEN units[u].value
                                                               ELSE units[u].exc])]
          ELSE IF units[u].pc = "reply_try"
               THEN units' = [units EXCEPT ![u].pc = "reply_except", ![u].exc = "ReplyError"]
               ELSE units' = Finish(u, "ReplyError")
    /\ UNCHANGED <<boot, cfgKeys, handlers, inflight, store, channel>>

(***************************************************************************)
(* Event path: DexBot._log_event and TelegramBot.send_alert                *)
(***************************************************************************)
\* _log_event is called with an event
Submit(ev) ==
    /\ boot = "running"
    /\ Len(units) < MaxUnits
    /\ units' = Append(units, NewUnit("event", <<>>, ev))
    /\ UNCHANGED <<boot, cfgKeys, handlers, inflight, store, channel>>

\* datetime.now() in _log_event: the readings of the clock are numbered in the
\* order of the commits they go into
Now == Len(store)

\* _log_event with a fault: the alert is formatted before the insert, and a
\* formatting error leaves _log_event with nothing committed
LogEventFormatFirst(u) ==
    /\ units[u].kind = "event"
    /\ units[u].pc = "submitted"
    /\ EarlierStarted(u)
    /\ \E committed \in BOOLEAN :
          LET m == _format_alert_message(units[u].event_type, units[u].data) IN
          IF m.raised
          THEN /\ units' = Finish(u, m.exc)
               /\ UNCHANGED store
          ELSE IF ~committed
          THEN /\ units' = Finish(u, "SQLAlchemyError")
               /\ UNCHANGED store
          ELSE /\ store' = Append(store, [unit |-> u, pair_id |-> units[u].pair_id,
                                          event_type |-> units[u].event_type,
                                          data |-> units[u].data, timestamp |-> Now])
               /\ units' = [units EXCEPT ![u].pc = "sending", ![u].message = m.text,
                                           ![u].handler = "_log_event"]
    /\ UNCHANGED <<boot, cfgKeys, handlers, inflight, channel>>

\* _log_event up to its await: the row is inserted and committed, then the
\* alert is formatted and handed to send_alert. The commit may raise, and so
\* may the formatting; either leaves _log_event.
_log_event(u) ==
    /\ units[u].kind = "event"
    /\ units[u].pc = "submitted"
    /\ EarlierStarted(u)
    /\ \E committed \in BOOLEAN :
          LET m == _format_alert_message(units[u].event_type, units[u].data) IN
          IF ~committed
          THEN /\ units' = Finish(u, "SQLAlchemyError")
               /\ UNCHANGED store
          ELSE /\ store' = Append(store, [unit |-> u, pair_id |-> units[u].pair_id,
                                          event_type |-> units[u].event_type,
                                          data |-> units[u].data, timestamp |-> Now])
               /\ IF m.raised
                  THEN units' = Finish(u, m.exc)
                  ELSE units' = [units EXCEPT ![u].pc = "sending", ![u].message = m.text,
                                              ![u].handler = "_log_event"]
    /\ UNCHANGED <<boot, cfgKeys, handlers, inflight, channel>>

\* send_alert with a fault: "try: await self.bot.send_message(...)" with
\* "except Exception: pass", a failed send returns as a delivered one does
SendAlertSwallows(u) ==
    /\ units[u].kind = "event"
    /\ units[u].pc = "sending"
    /\ \E delivered \in BOOLEAN :
          /\ channel' = IF delivered
                        THEN Append(channel, [unit |-> u, text |-> units[u].message])
                        ELSE channel
          /\ units' = [Finish(u, "") EXCEPT ![u].sends = @ + 1]
    /\ UNCHANGED <<boot, cfgKeys, handlers, inflight, store>>

\* "await self.bot.send_message(...)" ends, the one call send_alert makes
\* (sends counts them): the channel has the message and the call returns, or
\* the call raises and the exception leaves send_alert and _log_event
send_alert(u) ==
    /\ units[u].kind = "event"
    /\ units[u].pc = "sending"
    /\ \E delivered \in BOOLEAN :
          IF delivered
          THEN /\ channel' = Append(channel, [unit |-> u, text |-> units[u].message])
               /\ units' = [Finish(u, "") EXCEPT ![u].sends = @ + 1]
          ELSE /\ units' = [Finish(u, "TelegramError") EXCEPT ![u].sends = @ + 1]
               /\ UNCHANGED channel
    /\ UNCHANGED <<boot, cfgKeys, handlers, inflight, store>>

Next ==
    \/ LoadConfig
    \/ TelegramBot_init
    \/ run
    \/ \E text \in Texts : Receive(text)
    \/ \E ev \in Events : Submit(ev)
    \/ \E u \in 1..Len(units) : start(u)
    \/ \E u \in 1..Len(units) : handle_message(u)
    \/ \E u \in 1..Len(units) : buy(u)
    \/ \E u \in 1..Len(units) : sell(u)
    \/ \E u \in 1..Len(units) : execute_trade_returns(u)
    \/ \E u \in 1..Len(units) : re_text(u)
    \/ \E u \in 1..Len(units) : _log_event(u)
    \/ \E u \in 1..Len(units) : send_alert(u)

Spec == Init /\ [][Next]_vars

\* a step of a handler or of the event path
Handle ==
    \E u \in 1..Len(units) :
        \/ start(u) \/ handle_message(u) \/ buy(u) \/ sell(u)
        \/ execute_trade_returns(u) \/ re_text(u)
        \/ _log_event(u) \/ send_alert(u)

\* the event loops keep running what is ready: a handler that can take a
\* step takes one (requests.post has its timeout, an await ends)
FairSpec == Spec /\ WF_vars(Handle)

(***************************************************************************)
(* Properties                                                              *)
(***************************************************************************)
Units == 1..Len(units)

ChatUnits == {u \in Units : units[u].kind = "chat"}

EventUnits == {u \in Units : units[u].kind = "event"}

\* the chat units a /buy or /sell text makes
TradeUnits ==
    {u \in ChatUnits : split(units[u].text) # <<>> /\ split(units[u].text)[1] \in {W_buy, W_sell}}

\* how many replies of a kind the issuing chat of unit u got
Notices(u, kind) ==
    Cardinality({i \in 1..Len(units[u].replies) : units[u].replies[i].kind = kind})

\* amount > 0 on a float value (nan compares false, inf is greater)
Positive(a) ==
    \/ a.kind = "finite" /\ a.sign = 1 /\ a.mant > 0
    \/ a.kind = "inf" /\ a.sign = 1

\* the text does not parse: not exactly three words, or an amount that is no number
ParseFails(text) == Len(split(text)) # 3 \/ float(split(text)[3]).raised

\* the text parses to a valid intent: three words and an amount above 0
ValidIntent(text) == ~ParseFails(text) /\ Positive(float(split(text)[3]))

\* the handler of unit u has finished
Done(u) == units[u].pc = "done"

\* the rows of the store that unit u committed
Rows(u) == {i \in 1..Len(store) : store[i].unit = u}

\* the messages the transport got for unit u
Sent(u) == {i \in 1..Len(channel) : channel[i].unit = u}

\* C1: for a /buy or /sell that parses to a valid intent, once the handler
\* has finished exactly one outcome message has been delivered: one "executed"
\* notice and no "failed" notice when the trade call returned, one "failed"
\* notice and no "executed" notice when it raised.
C1_ExactlyOneOutcome ==
    \A u \in TradeUnits :
        (Done(u) /\ ValidIntent(units[u].text)) =>
            IF _execute_trade(units[u].answer).raised
            THEN Notices(u, "executed") = 0 /\ Notices(u, "failed") = 1
            ELSE Notices(u, "executed") = 1 /\ Notices(u, "failed") = 0

\* C2: every request sent to the trading endpoint carries an amount above 0.
C2_SentAmountsPositive ==
    \A u \in ChatUnits :
        \A i \in 1..Len(units[u].requests) : Positive(units[u].requests[i].amount)

\* C3: a /buy or /sell whose text does not parse (not exactly three words, or
\* an amount that is no number) sends no request to the trading endpoint:
\* at every point of its handling the unit has made no request and waits for
\* none. Every outbound call is recorded with the unit that made it, so the
\* count of calls is as it was before the message.
C3_ParseFailureSendsNothing ==
    \A u \in TradeUnits :
        ParseFails(units[u].text) =>
            units[u].requests = <<>> /\ units[u].pc # "request" /\ inflight # u

\* a /buy or /sell with the wrong number of words and one with an amount that
\* is no number have both been handled
C3_Witness ==
    /\ \E u \in TradeUnits : Done(u) /\ Len(split(units[u].text)) # 3
    /\ \E u \in TradeUnits :
          Done(u) /\ Len(split(units[u].text)) = 3 /\ float(split(units[u].text)[3]).raised

\* the endpoint's answer is a non-2xx response, a timeout or a body that is no JSON
NonSuccess(answer) ==
    \/ answer.kind = "response" /\ (answer.status \notin 200..299 \/ ~answer.isjson)
    \/ answer.kind = "Timeout"

\* C4: when the endpoint answers the request of a valid intent with a non-2xx
\* response, a timeout or a malformed body, the user never gets an "executed" notice for that command,
\* and a handler that ends normally has delivered a "failed" notice.
C4_NonSuccessIsFailure ==
    \A u \in TradeUnits :
        (ValidIntent(units[u].text) /\ NonSuccess(units[u].answer)) =>
            /\ Notices(u, "executed") = 0
            /\ (Done(u) /\ units[u].ended = "normal") => Notices(u, "failed") >= 1

\* C5: for every /buy or /sell and every outcome of parsing and of the trade
\* call the handler ends normally, and an error of either has been turned
\* into a message to the user.
C5_HandlerEndsNormally ==
    \A u \in TradeUnits :
        Done(u) =>
            /\ units[u].ended = "normal"
            /\ (ParseFails(units[u].text) \/ _execute_trade(units[u].answer).raised)
                  => Notices(u, "failed") >= 1

\* the dedup key of a message: the identity of its event and the bucket of
\* its timestamp
DedupKey(row) == <<row.pair_id, row.event_type, row.data, row.timestamp \div BucketLen>>

\* the row _log_event committed before the send of channel[i]
RowOf(i) == store[CHOOSE r \in Rows(channel[i].unit) : TRUE]

\* C6: two deliveries with the same dedup key make one call to the chat
\* transport: no two messages the transport got carry the same key.
C6_DedupOneTransportCall ==
    \A i, j \in 1..Len(channel) : i < j => DedupKey(RowOf(i)) # DedupKey(RowOf(j))

\* C7: of two events for the channel, the transport gets the one submitted
\* first before the one submitted second.
C7_ChannelOrder ==
    \A i, j \in 1..Len(channel) : i < j => channel[i].unit < channel[j].unit

\* C8: start-up goes past configuration loading (the bot is constructed,
\* handlers are registered, messages are processed) only with all four
\* required keys; with one missing it ends in the configuration error with no
\* handler registered and no message processed.
C8_StartupNeedsAllKeys ==
    /\ (boot \in {"configured", "constructed", "running"} \/ handlers # <<>> \/ units # <<>>)
          => {"telegram", "apis", "blacklists", "thresholds"} \subseteq cfgKeys
    /\ (boot # "init" /\ \E k \in {"telegram", "apis", "blacklists", "thresholds"} : k \notin cfgKeys)
          => boot = "config_error" /\ handlers = <<>> /\ units = <<>>

\* start-up has ended in the configuration error with exactly one key missing
C8_Witness ==
    /\ boot = "config_error"
    /\ Cardinality({"telegram", "apis", "blacklists", "thresholds"} \ cfgKeys) = 1

\* the event types with a template
Registered == {"rug_pull_alert", "pump_alert", "buy", "sell"}

\* C9: an event whose type has no template is never dropped silently: once
\* _log_event has run, it has ended with an exception to its caller (the
\* KeyError of the formatting when the row was committed), and no message for
\* the event is sent or about to be sent to the channel.
C9_UnknownTypeSurfaced ==
    \A u \in EventUnits :
        units[u].event_type \notin Registered =>
            /\ units[u].pc \in {"submitted", "done"}
            /\ Done(u) => units[u].ended = "raised" /\ units[u].escaped # ""
            /\ (Done(u) /\ Rows(u) # {}) => units[u].escaped = "KeyError"
            /\ Sent(u) = {}

\* the formatting of an event of an unknown type has failed in _log_event
C9_Witness ==
    \E u \in EventUnits :
        /\ units[u].event_type \notin Registered
        /\ Done(u) /\ Rows(u) # {} /\ units[u].escaped = "KeyError"

\* the event variants of the specification, as event type and fields:
\* RugPullAlert, PumpAlert, TradeExecuted (a buy or a sell), TradeFailed
SpecVariant(event_type, data) ==
    \/ event_type = "rug_pull_alert" /\ DOMAIN data = {"symbol", "dropPct"}
    \/ event_type = "pump_alert" /\ DOMAIN data = {"symbol", "changePct"}
    \/ event_type \in {"buy", "sell"} /\ DOMAIN data = {"token", "amount", "action"}
    \/ event_type = "trade_failed" /\ DOMAIN data = {"token", "amount", "reason"}

\* C10: formatting an event of one of the four variants, with the fields the
\* specification names, succeeds; the text delivered for
\* RugPullAlert{symbol: FOO, dropPct: 83} is
\* "Rug Pull Alert [U+2014] Token: FOO, Liquidity Drop: 83%".
C10_VariantsFormat ==
    \A u \in EventUnits :
        (SpecVariant(units[u].event_type, units[u].data) /\ Rows(u) # {}) =>
            /\ units[u].escaped # "KeyError"
            /\ (units[u].event_type = "rug_pull_alert" /\ units[u].pc = "sending")
                  => units[u].message = "Rug Pull Alert [U+2014] Token: FOO, Liquidity Drop: 83%"

\* C11: a /buy or /sell with the wrong number of words is answered with the
\* fixed "command not recognized" message of free text and with no
\* trade-failure notice.
C11_MalformedGetsUnrecognized ==
    \A u \in TradeUnits :
        Len(split(units[u].text)) # 3 =>
            /\ Notices(u, "failed") = 0
            /\ (Done(u) /\ units[u].ended = "normal") => Notices(u, "unrecognized") = 1

\* C12: a command makes one request to the trading endpoint whatever the
\* outcome, and a failed request is not sent again: a unit never has two
\* requests, and it has exactly one from the call of _execute_trade on.
C12_OneRequestPerCommand ==
    \A u \in ChatUnits :
        /\ Len(units[u].requests) <= 1
        /\ (units[u].pc = "request" \/ units[u].answer.kind # "none")
              => Len(units[u].requests) = 1

\* a command whose request timed out is finished, with one request made
C12_Witness ==
    \E u \in TradeUnits :
        Done(u) /\ units[u].answer.kind = "Timeout" /\ Len(units[u].requests) = 1

\* the stage of unit u in the chain Received, Parsed, Executed, Formatted,
\* Delivered, or Failed. The outcome text is formatted in the step that ends
\* the execution, so a unit is seen in Formatted right after Parsed; a unit on
\* its way to Failed keeps the stage it left the chain at. Delivered is the
\* delivery of the outcome of the normal path: the reply of the try block or of
\* a handler without one, or the alert on the channel.
Stage(u) ==
    IF \/ \E kind \in {"executed", "start", "unrecognized"} : Notices(u, kind) > 0
       \/ Sent(u) # {}
    THEN "Delivered"
    ELSE CASE units[u].pc = "done" -> "Failed"
           [] units[u].pc \in {"received", "submitted"} -> "Received"
           [] units[u].pc = "request" -> "Parsed"
           [] units[u].pc \in {"reply_try", "reply_plain", "sending"} -> "Formatted"
           [] units[u].pc = "reply_except" /\ units[u].exc = "ValueError" -> "Received"
           [] units[u].pc = "reply_except" /\ units[u].exc = "ReplyError" -> "Formatted"
           [] OTHER -> "Parsed"

Rank(stage) ==
    CASE stage = "Received" -> 1 [] stage = "Parsed" -> 2 [] stage = "Executed" -> 3
      [] stage = "Formatted" -> 4 [] stage = "Delivered" -> 5 [] stage = "Failed" -> 6

\* one step keeps the order of the stages of every unit, reaches Delivered
\* from Formatted only, and leaves a unit in Delivered or Failed as it is: no
\* further request, reply or channel message for it
StageStep ==
    \A u \in Units :
        /\ Rank(Stage(u)') >= Rank(Stage(u))
        /\ Stage(u)' = "Delivered" => Stage(u) \in {"Formatted", "Delivered"}
        /\ Stage(u) \in {"Delivered", "Failed"} =>
              /\ units'[u] = units[u]
              /\ Stage(u)' = Stage(u)
              /\ \A i \in (Len(channel) + 1)..Len(channel') : channel'[i].unit # u

\* C13: every unit of work moves through the stages in the order Received,
\* Parsed, Executed, Formatted, Delivered, with the exit to Failed from any
\* stage; it reaches Delivered or Failed in the end, and from then on it makes
\* no transition.
C13_Lifecycle ==
    /\ [][StageStep]_vars
    /\ \A i \in 1..MaxUnits :
          (Len(units) >= i) ~> (Len(units) >= i /\ Stage(i) \in {"Delivered", "Failed"})

\* one unit has gone the whole chain to Delivered and another has left it for
\* Failed
C13_Witness ==
    /\ \E u \in Units : Done(u) /\ Stage(u) = "Delivered"
    /\ \E u \in Units : Done(u) /\ Stage(u) = "Failed"

\* the event of unit u is of a type with a template, and its data lack a field
\* the template names
MissingField(u) ==
    /\ units[u].event_type \in Registered
    /\ ~(FieldsOf(templates[units[u].event_type]) \subseteq DOMAIN units[u].data)

\* C14: an event of a known type that lacks a field of its template does not
\* abort the event path: once its row is committed and _log_event is over, no
\* KeyError has left _log_event, and a call that ended normally has delivered a
\* message for the event to the channel.
C14_MissingFieldRecovered ==
    \A u \in EventUnits :
        (MissingField(u) /\ Done(u) /\ Rows(u) # {}) =>
            /\ units[u].escaped # "KeyError"
            /\ units[u].ended = "normal" => Sent(u) # {}

\* C15: a call of send_alert makes one transport attempt; when the attempt
\* fails the error reaches the caller, through send_alert and _log_event, and
\* the event of the lost alert has its row in the store.
C15_OneAttemptFailureSurfaced ==
    \A u \in EventUnits :
        /\ units[u].sends = (IF Done(u) /\ units[u].escaped \in {"", "TelegramError"} THEN 1 ELSE 0)
        /\ Cardinality(Sent(u)) <= units[u].sends
        /\ (units[u].sends = 1 /\ Sent(u) = {}) =>
              /\ units[u].ended = "raised"
              /\ units[u].escaped = "TelegramError"
              /\ Rows(u) # {}

\* an alert was lost in its one attempt
C15_Witness ==
    \E u \in EventUnits : units[u].sends = 1 /\ Sent(u) = {} /\ Done(u)

\* C16: the row of an event is committed before its alert is formatted and
\* sent: every alert on the channel, and every alert handed to send_alert, is
\* of an event with a row in the store; an event whose formatting or delivery
\* failed keeps its row and has no alert on the channel.
C16_CommitBeforeAlert ==
    /\ \A i \in 1..Len(channel) : Rows(channel[i].unit) # {}
    /\ \A u \in EventUnits :
          /\ units[u].pc = "sending" => Rows(u) # {}
          /\ (Done(u) /\ units[u].escaped \in {"KeyError", "TelegramError"}) =>
                Rows(u) # {} /\ Sent(u) = {}

\* one event has its row and its alert, another has its row and a failed
\* formatting, with no alert
C16_Witness ==
    /\ \E u \in EventUnits : Rows(u) # {} /\ Sent(u) # {}
    /\ \E u \in EventUnits :
          Done(u) /\ units[u].escaped = "KeyError" /\ Rows(u) # {} /\ Sent(u) = {}

\* the handler the registration order gives a text: /start to start, /buy to
\* buy, /sell to sell, any other text to handle_message
Expected(text) ==
    LET words == split(text)
        first == IF words = <<>> THEN <<>> ELSE words[1]
    IN  CASE first = W_start -> "start"
          [] first = W_buy -> "buy"
          [] first = W_sell -> "sell"
          [] OTHER -> "handle_message"

\* C17: a text message is handled by one handler, the one the registration
\* order gives it: a /buy or /sell message gets no "Command not recognized"
\* reply, and a message that is not /buy or /sell makes no trade request.
C17_OneHandlerByOrder ==
    \A u \in ChatUnits :
        /\ units[u].handler \in {"", Expected(units[u].text)}
        /\ units[u].pc # "received" => units[u].handler = Expected(units[u].text)
        /\ Expected(units[u].text) \in {"buy", "sell"} => Notices(u, "unrecognized") = 0
        /\ Expected(units[u].text) \notin {"buy", "sell"} =>
              /\ units[u].requests = <<>>
              /\ units[u].pc # "request"
              /\ inflight # u

\* a /buy message got its outcome from buy, and another text got the
\* "Command not recognized" reply
C17_Witness ==
    /\ \E u \in ChatUnits :
          Done(u) /\ units[u].handler = "buy" /\ units[u].requests # <<>>
    /\ \E u \in ChatUnits :
          Done(u) /\ units[u].handler = "handle_message" /\ Notices(u, "unrecognized") = 1

\* C18: handling a chat trade command, with whatever outcome, commits no row
\* to the event store and sends nothing to the alert channel: every row and
\* every channel message is of an event given to _log_event, and the chat
\* units have replies only.
C18_TradeLeavesStoreAndChannel ==
    /\ \A u \in ChatUnits : Rows(u) = {} /\ Sent(u) = {} /\ units[u].sends = 0
    /\ \A i \in 1..Len(store) : store[i].unit \in EventUnits
    /\ \A i \in 1..Len(channel) : channel[i].unit \in EventUnits
    /\ \A u \in EventUnits : units[u].replies = <<>>

\* one trade command ended with its "executed" reply and another with its
\* "failed" reply
C18_Witness ==
    /\ \E u \in TradeUnits : Done(u) /\ Notices(u, "executed") = 1
    /\ \E u \in TradeUnits : Done(u) /\ Notices(u, "failed") = 1 /\ units[u].requests # <<>>

\* the chat units whose trade request is in flight
InFlight == {u \in ChatUnits : units[u].pc = "request"}

\* C19: at most one trade request of the chat handlers is in flight, and
\* while it is, the handler of no other inbound message is running: every
\* other chat unit is still waiting or already handled.
C19_OneRequestInFlight ==
    /\ Cardinality(InFlight) <= 1
    /\ \A u \in InFlight :
          /\ inflight = u
          /\ \A v \in ChatUnits \ {u} : units[v].pc \in {"received", "done"}
    /\ inflight # 0 => inflight \in InFlight

\* a trade request is in flight while another inbound message waits for its
\* handler
C19_Witness ==
    \E u \in InFlight : \E v \in ChatUnits \ {u} : units[v].pc = "received"

====
